---------------------------- MODULE Spec2Model ----------------------------
(***************************************************************************)
(* CNNTransformerSE (speechbrain/lobes/models/transformer/TransformerSE.py)*)
(* as a state machine.  The instance is the record `self`; every forward   *)
(* call owns a frame (its arguments, its locals, the calls it made to its  *)
(* collaborators) and advances statement by statement.                     *)
(*                                                                         *)
(* Tensors are nested sequences indexed [batch][time][feature]; None is    *)
(* the empty sequence.  The collaborators that live outside this file (the *)
(* encoder stack, get_lookahead_mask, Linear, the activations and the      *)
(* injected embedding modules) are integer stand-ins that keep the shape   *)
(* rules and the information flow of the real ones.                        *)
(***************************************************************************)
EXTENDS Integers, Sequences, FiniteSets

VARIABLES
    self,            \* the CNNTransformerSE instance (attributes set by __init__ and forward)
    pc,              \* per call frame: the statement forward is about to run
    arg_x,           \* the caller's tensor x
    arg_spm,         \* the caller's src_key_padding_mask
    x,               \* forward's local x (rebound by line 88)
    encoder_output,  \* forward's local encoder_output
    attn_diag,       \* forward's local _ (the encoder's second return value)
    output,          \* forward's local output (bound by line 96, rebound by line 97)
    result,          \* the value forward returned to the caller
    exc,             \* the exception that left forward, <<>> when none
    enc_call,        \* the calls this forward made to self.encoder, with their arguments
    steps,           \* the collaborators this forward invoked, in order
    snapshot,        \* the copy of the instance a caller took before calling forward
    mask_writer,     \* the frame whose forward last assigned self.attn_mask (0: none)
    mask_read_of     \* the frame whose assignment this forward read at line 92

vars == <<self, pc, arg_x, arg_spm, x, encoder_output, attn_diag, output, result,
          exc, enc_call, steps, snapshot, mask_writer, mask_read_of>>

--------------------------------------------------------------------------
(* Bounds of the model *)

\* longest input, in frames
MaxT == 2

\* most encoder layers
MaxLayers == 2

\* feature widths (the docstring example uses 256 and 257)
InputSize == 2

OutputSize == 3

\* call frames of forward that exist at a time
Callers == {1, 2}

\* batch sizes of the inputs
Batches == {1, 2}

\* frame values: a base signal and the value of a perturbed frame
Base == 1

Perturbed == 0 - 1

None == <<>>

NoModule == "None"

--------------------------------------------------------------------------
(* Tensors *)

Shape(t) == <<Len(t), Len(t[1]), Len(t[1][1])>>

MkTensor(B, F, s) == [b \in 1..B |-> [t \in 1..Len(s) |-> [k \in 1..F |-> s[t]]]]

RECURSIVE SeqSum(_)
SeqSum(s) == IF s = <<>> THEN 0 ELSE Head(s) + SeqSum(Tail(s))

Elements(t) == {t[b][i][k] : b \in 1..Len(t), i \in 1..Len(t[1]), k \in 1..Len(t[1][1])}

--------------------------------------------------------------------------
(* Collaborators defined outside TransformerSE.py *)

\* get_lookahead_mask(padded_input): square, sized by the time dimension,
\* TRUE where attention is forbidden (key position after the query position).
get_lookahead_mask(t) ==
    [i \in 1..Len(t[1]) |-> [j \in 1..Len(t[1]) |-> j > i]]

\* Whether query position i of batch row b may attend to key position j.
Attends(mask, spm, b, i, j) ==
    /\ (mask = None \/ ~mask[i][j])
    /\ (spm = None \/ ~spm[b][j])

\* The attention head that owns feature k of F when there are nhead heads.
HeadOf(k, F, nhead) == ((k - 1) \div (F \div nhead)) + 1

\* The encoder rejects a src of the wrong width and masks of the wrong shape.
EncoderRejects(enc, src, mask, spm) ==
    \/ Shape(src)[3] # enc.d_model
    \/ mask # None /\ (Len(mask) # Shape(src)[2] \/ Len(mask[1]) # Shape(src)[2])
    \/ spm # None /\ (Len(spm) # Shape(src)[1] \/ Len(spm[1]) # Shape(src)[2])

\* The sum of feature k over the key positions 1..j that query i attends to.
RECURSIVE KeySum(_, _, _, _, _, _, _)
KeySum(src, mask, spm, b, i, k, j) ==
    IF j = 0 THEN 0
    ELSE (IF Attends(mask, spm, b, i, j) THEN src[b][j][k] ELSE 0)
         + KeySum(src, mask, spm, b, i, k, j - 1)

\* One encoder layer: residual plus the head-weighted sum over the attended keys.
EncoderLayer(enc, src, mask, spm) ==
    [b \in 1..Len(src) |-> [i \in 1..Len(src[1]) |-> [k \in 1..Len(src[1][1]) |->
        src[b][i][k]
        + HeadOf(k, Len(src[1][1]), enc.nhead)
          * KeySum(src, mask, spm, b, i, k, Len(src[1]))]]]

RECURSIVE EncoderStack(_, _, _, _, _)
EncoderStack(n, enc, src, mask, spm) ==
    IF n = 0 THEN src
    ELSE EncoderStack(n - 1, enc, EncoderLayer(enc, src, mask, spm), mask, spm)

\* The attention weights the encoder reports: nonzero exactly on the attended keys.
EncoderAttention(src, mask, spm) ==
    [b \in 1..Len(src) |-> [i \in 1..Len(src[1]) |-> [j \in 1..Len(src[1]) |->
        IF Attends(mask, spm, b, i, j) THEN 1 ELSE 0]]]

\* encoder(src, src_mask, src_key_padding_mask) -> (output, attention diagnostics)
Encoder(enc, src, mask, spm) ==
    <<EncoderStack(enc.num_encoder_layers, enc, src, mask, spm),
      EncoderAttention(src, mask, spm)>>

\* Linear(n_neurons, input_size, bias=False): weight row k alternates in sign.
Weight(k, j) == IF k % 2 = 1 THEN 1 ELSE 0 - 1

LinearRejects(layer, t) == Shape(t)[3] # layer.input_size

Linear(layer, t) ==
    [b \in 1..Len(t) |-> [i \in 1..Len(t[1]) |-> [k \in 1..layer.n_neurons |->
        SeqSum([j \in 1..layer.input_size |-> Weight(k, j) * t[b][i][j]])]]]

\* The activation classes a caller may pass as output_activation.
Activations == {"ReLU", "Identity"}

Activate(act, t) ==
    [b \in 1..Len(t) |-> [i \in 1..Len(t[1]) |-> [k \in 1..Len(t[1][1]) |->
        IF act = "ReLU" /\ t[b][i][k] < 0 THEN 0 ELSE t[b][i][k]]]]

\* The embedding modules a caller may inject as custom_emb_module.
Modules == {"causal_conv", "lookahead_conv", "subsample"}

ModuleRejects(m, t) == Shape(t)[3] # InputSize

Frame(t, b, i, k) == IF i \in 1..Len(t[1]) THEN t[b][i][k] ELSE 0

ApplyModule(m, t) ==
    CASE m = "causal_conv" ->
           [b \in 1..Len(t) |-> [i \in 1..Len(t[1]) |-> [k \in 1..Len(t[1][1]) |->
               t[b][i][k] + Frame(t, b, i - 1, k)]]]
      [] m = "lookahead_conv" ->
           [b \in 1..Len(t) |-> [i \in 1..Len(t[1]) |-> [k \in 1..Len(t[1][1]) |->
               t[b][i][k] + Frame(t, b, i + 1, k)]]]
      [] m = "subsample" ->
           [b \in 1..Len(t) |-> [i \in 1..((Len(t[1]) + 1) \div 2) |->
               [k \in 1..Len(t[1][1]) |-> t[b][2 * i - 1][k]]]]

--------------------------------------------------------------------------
(* CNNTransformerSE *)

\* __init__: the attributes of a new instance.  attn_mask does not exist until
\* the first forward assigns it and is never read before that; it starts as None.
\* d_ffn, dropout and activation go to the encoder's constructor unchanged and
\* have no part in what follows.
Construct(output_size, input_size, output_activation, nhead, num_layers, causal, custom_emb_module) ==
    [encoder |-> [nhead |-> nhead, d_model |-> input_size,
                  num_encoder_layers |-> num_layers, num_decoder_layers |-> 0,
                  positional_encoding |-> FALSE],
     custom_emb_module |-> custom_emb_module,
     causal |-> causal,
     output_layer |-> [n_neurons |-> output_size, input_size |-> input_size,
                       bias |-> FALSE],
     output_activation |-> output_activation,
     attn_mask |-> None]

\* Variants of the statements of forward, each with one plausible slip; the
\* properties below are checked to tell them from the statements as written.
AttnMask_Always(causal, t) == get_lookahead_mask(t)

\* lines 82-85: the value forward assigns to self.attn_mask
AttnMask(causal, t) == IF causal THEN get_lookahead_mask(t) ELSE None

StoreMask_Clobbers(s, mask) == [s EXCEPT !.attn_mask = mask, !.causal = FALSE]

StoreMask_Cached(s, mask) ==
    IF s.attn_mask # None THEN s ELSE [s EXCEPT !.attn_mask = mask]

\* lines 83 and 85: the assignment to the instance attribute
StoreMask(s, mask) == [s EXCEPT !.attn_mask = mask]

EmbedInput_Skipped(module, t) == t

\* lines 87-88: the value of the local x after the optional embedding
EmbedInput(module, t) == IF module # NoModule THEN ApplyModule(module, t) ELSE t

EncoderArgs_NoMask(t, attn_mask, spm) ==
    [src |-> t, src_mask |-> None, src_key_padding_mask |-> spm]

EncoderArgs_NoPadding(t, attn_mask, spm) ==
    [src |-> t, src_mask |-> attn_mask, src_key_padding_mask |-> None]

\* lines 90-94: the keyword arguments of the call to self.encoder
EncoderArgs(t, attn_mask, spm) ==
    [src |-> t, src_mask |-> attn_mask, src_key_padding_mask |-> spm]

ProjectOutput_Skipped(layer, enc_out) == enc_out

\* line 96
ProjectOutput(layer, enc_out) == Linear(layer, enc_out)

ActivateOutput_Skipped(act, out) == out

\* line 97
ActivateOutput(act, out) == Activate(act, out)

\* The configurations and inputs the model draws from.
Heads == {h \in 1..InputSize : InputSize % h = 0}

Layers == 1..MaxLayers

\* The base signal of every length, and the same with one frame perturbed.
FrameSeqs ==
    {[i \in 1..n |-> IF i = j THEN Perturbed ELSE Base] : n \in 1..MaxT, j \in 0..MaxT}

Inputs == {MkTensor(B, InputSize, s) : B \in Batches, s \in FrameSeqs}

\* Concurrent callers pass single-row batches.
ThreadInputs == {t \in Inputs : Len(t) = 1}

\* The padding masks a caller may pass with t: none, or the last frame padded.
PaddingMasks(t) ==
    {None} \cup
    (IF Len(t[1]) >= 2
     THEN {[b \in 1..Len(t) |-> [i \in 1..Len(t[1]) |-> i = Len(t[1])]]}
     ELSE {})

Unwound(c) ==
    /\ x' = [x EXCEPT ![c] = None]
    /\ encoder_output' = [encoder_output EXCEPT ![c] = None]
    /\ attn_diag' = [attn_diag EXCEPT ![c] = None]
    /\ output' = [output EXCEPT ![c] = None]

Raise_Wrapped(c, who) ==
    /\ pc' = [pc EXCEPT ![c] = "raised"]
    /\ exc' = [exc EXCEPT ![c] = <<"forward">>]
    /\ Unwound(c)

\* An exception leaves forward: nothing catches it, the frame is unwound.
Raise(c, who) ==
    /\ pc' = [pc EXCEPT ![c] = "raised"]
    /\ exc' = [exc EXCEPT ![c] = <<who>>]
    /\ Unwound(c)

Init ==
    /\ self \in {Construct(OutputSize, InputSize, act, h, n, causal, m) :
                    act \in Activations, h \in Heads, n \in Layers,
                    causal \in BOOLEAN, m \in {NoModule} \cup Modules}
    /\ pc = [c \in Callers |-> "idle"]
    /\ arg_x = [c \in Callers |-> None]
    /\ arg_spm = [c \in Callers |-> None]
    /\ x = [c \in Callers |-> None]
    /\ encoder_output = [c \in Callers |-> None]
    /\ attn_diag = [c \in Callers |-> None]
    /\ output = [c \in Callers |-> None]
    /\ result = [c \in Callers |-> None]
    /\ exc = [c \in Callers |-> <<>>]
    /\ enc_call = [c \in Callers |-> <<>>]
    /\ steps = [c \in Callers |-> <<>>]
    /\ snapshot = [c \in Callers |-> self]
    /\ mask_writer = 0
    /\ mask_read_of = [c \in Callers |-> 0]

\* lines 81-85: forward is entered with (x0, spm0) and assigns self.attn_mask.
Forward(c, x0, spm0) ==
    /\ pc[c] \in {"idle", "returned", "raised"}
    /\ self' = StoreMask(self, AttnMask(self.causal, x0))
    /\ mask_writer' = c
    /\ pc' = [pc EXCEPT ![c] = "l87"]
    /\ arg_x' = [arg_x EXCEPT ![c] = x0]
    /\ arg_spm' = [arg_spm EXCEPT ![c] = spm0]
    /\ x' = [x EXCEPT ![c] = x0]
    /\ encoder_output' = [encoder_output EXCEPT ![c] = None]
    /\ attn_diag' = [attn_diag EXCEPT ![c] = None]
    /\ output' = [output EXCEPT ![c] = None]
    /\ result' = [result EXCEPT ![c] = None]
    /\ exc' = [exc EXCEPT ![c] = <<>>]
    /\ enc_call' = [enc_call EXCEPT ![c] = <<>>]
    /\ steps' = [steps EXCEPT ![c] = <<>>]
    /\ mask_read_of' = [mask_read_of EXCEPT ![c] = 0]

\* lines 87-88: the optional embedding module; it may raise.
Embed(c, faults) ==
    /\ pc[c] = "l87"
    /\ UNCHANGED <<self, arg_x, arg_spm, result, enc_call, mask_writer,
                   mask_read_of>>
    /\ IF self.custom_emb_module = NoModule
       THEN /\ pc' = [pc EXCEPT ![c] = "l90"]
            /\ UNCHANGED <<x, encoder_output, attn_diag, output, exc, steps>>
       ELSE /\ steps' = [steps EXCEPT ![c] = Append(@, "custom_emb_module")]
            /\ \E fails \in faults :
                 IF fails \/ ModuleRejects(self.custom_emb_module, x[c])
                 THEN Raise(c, "custom_emb_module")
                 ELSE /\ x' = [x EXCEPT ![c] = EmbedInput(self.custom_emb_module, @)]
                      /\ pc' = [pc EXCEPT ![c] = "l90"]
                      /\ UNCHANGED <<encoder_output, attn_diag, output, exc>>

\* lines 90-94: self.encoder is called with the stored mask; it may raise.
Encode(c, faults) ==
    /\ pc[c] = "l90"
    /\ UNCHANGED <<self, arg_x, arg_spm, result, mask_writer>>
    /\ mask_read_of' = [mask_read_of EXCEPT ![c] = mask_writer]
    /\ steps' = [steps EXCEPT ![c] = Append(@, "encoder")]
    /\ LET args == EncoderArgs(x[c], self.attn_mask, arg_spm[c])
           ret == Encoder(self.encoder, args.src, args.src_mask,
                          args.src_key_padding_mask)
       IN /\ enc_call' = [enc_call EXCEPT ![c] = Append(@, args)]
          /\ \E fails \in faults :
               IF fails \/ EncoderRejects(self.encoder, args.src, args.src_mask,
                                          args.src_key_padding_mask)
               THEN Raise(c, "encoder")
               ELSE /\ encoder_output' = [encoder_output EXCEPT ![c] = ret[1]]
                    /\ attn_diag' = [attn_diag EXCEPT ![c] = ret[2]]
                    /\ pc' = [pc EXCEPT ![c] = "l96"]
                    /\ UNCHANGED <<x, output, exc>>

\* line 96: the linear projection; it may raise.
Project(c, faults) ==
    /\ pc[c] = "l96"
    /\ UNCHANGED <<self, arg_x, arg_spm, result, enc_call, mask_writer,
                   mask_read_of>>
    /\ steps' = [steps EXCEPT ![c] = Append(@, "output_layer")]
    /\ \E fails \in faults :
         IF fails \/ LinearRejects(self.output_layer, encoder_output[c])
         THEN Raise(c, "output_layer")
         ELSE /\ output' = [output EXCEPT ![c] =
                               ProjectOutput(self.output_layer, encoder_output[c])]
              /\ pc' = [pc EXCEPT ![c] = "l97"]
              /\ UNCHANGED <<x, encoder_output, attn_diag, exc>>

\* lines 97-99: the output activation, then return; the activation may raise.
Return(c, faults) ==
    /\ pc[c] = "l97"
    /\ UNCHANGED <<self, arg_x, arg_spm, enc_call, mask_writer,
                   mask_read_of>>
    /\ steps' = [steps EXCEPT ![c] = Append(@, "output_activation")]
    /\ \E fails \in faults :
         IF fails
         THEN Raise(c, "output_activation") /\ UNCHANGED result
         ELSE /\ output' = [output EXCEPT ![c] =
                               ActivateOutput(self.output_activation, @)]
              /\ result' = [result EXCEPT ![c] = output'[c]]
              /\ pc' = [pc EXCEPT ![c] = "returned"]
              /\ UNCHANGED <<x, encoder_output, attn_diag, exc>>

Active(c) == pc[c] \in {"l87", "l90", "l96", "l97"}

\* Whether a collaborator fails for a reason of its own (device, memory, ...).
Faults == BOOLEAN

NoFaults == {FALSE}

Step(faults) ==
    \E c \in Callers :
        Embed(c, faults) \/ Encode(c, faults) \/ Project(c, faults) \/ Return(c, faults)

\* One caller, one forward at a time (the use the component documents); the
\* caller keeps a copy of the instance to compare with afterwards.
Call ==
    \E x0 \in Inputs : \E spm0 \in PaddingMasks(x0) :
        /\ Forward(1, x0, spm0)
        /\ snapshot' = [snapshot EXCEPT ![1] = self]

Next == Call \/ (Step(Faults) /\ UNCHANGED snapshot)

Spec == Init /\ [][Next]_vars

\* Forward calls on one instance from concurrent callers.
InitThreads ==
    /\ Init
    /\ self.encoder.nhead = 1
    /\ self.encoder.num_encoder_layers = 1
    /\ self.output_activation = "ReLU"

CallAnytime ==
    \E c \in Callers, x0 \in ThreadInputs : \E spm0 \in PaddingMasks(x0) :
        /\ Forward(c, x0, spm0)
        /\ UNCHANGED snapshot

NextThreads == CallAnytime \/ (Step(NoFaults) /\ UNCHANGED snapshot)

SpecThreads == InitThreads /\ [][NextThreads]_vars

--------------------------------------------------------------------------
(* Vocabulary of the properties *)

Returned(c) == pc[c] = "returned"

Raised(c) == pc[c] = "raised"

\* The instance without its stored attention mask.
Fixed(s) == [s EXCEPT !.attn_mask = None]

\* The collaborators of a successful forward, in the specified order.
Pipeline(s) ==
    (IF s.custom_emb_module # NoModule THEN <<"custom_emb_module">> ELSE <<>>)
    \o <<"encoder", "output_layer", "output_activation">>

IsPrefix(p, q) == Len(p) <= Len(q) /\ \A n \in 1..Len(p) : p[n] = q[n]

Padded(spm, b, j) == spm # None /\ spm[b][j]

\* Two inputs (tensor and padding mask) agree on the frames 1..i.
InputsAgree(t, tp, u, up, i) ==
    /\ Len(t) = Len(u)
    /\ i <= Len(t[1]) /\ i <= Len(u[1])
    /\ \A b \in 1..Len(t), j \in 1..i :
          t[b][j] = u[b][j] /\ (Padded(tp, b, j) <=> Padded(up, b, j))

\* Two tensors both have a frame i, and the same one.
SameFrame(t, u, i) ==
    /\ i <= Len(t[1]) /\ i <= Len(u[1])
    /\ \A b \in 1..Len(t) : t[b][i] = u[b][i]

\* The calls c and d returned outputs with the same frame i wherever their
\* inputs agree on the frames 1..i.
FutureBlind(c, d) ==
    \A i \in 1..MaxT :
        /\ InputsAgree(arg_x[c], arg_spm[c], arg_x[d], arg_spm[d], i)
        /\ i <= Len(result[c][1]) /\ i <= Len(result[d][1])
        => SameFrame(result[c], result[d], i)

\* The attention weights call c got back are zero on every later position.
NoAttentionAhead(c) ==
    \A b \in 1..Len(attn_diag[c]) : \A i, j \in 1..Len(attn_diag[c][1]) :
        j > i => attn_diag[c][b][i][j] = 0

\* An embedding module looks ahead unless it keeps the time length and its
\* output frame i is fixed by the input frames 1..i.
LooksAhead(m) ==
    \E t \in Inputs, u \in Inputs : \E i \in 1..MaxT :
        /\ InputsAgree(t, None, u, None, i)
        /\ ~SameFrame(EmbedInput(m, t), EmbedInput(m, u), i)

CausalModules == {m \in {NoModule} \cup Modules : ~LooksAhead(m)}

--------------------------------------------------------------------------
(* Properties *)

\* C1: with no custom_emb_module, whatever nhead, num_layers and causal are, a
\* returned tensor has the input's batch and time sizes and output_size features.
C1_OutputShape ==
    \A c \in Callers :
        Returned(c) /\ self.custom_emb_module = NoModule
            => Shape(result[c]) = <<Shape(arg_x[c])[1], Shape(arg_x[c])[2], OutputSize>>

C1_Witness ==
    /\ Returned(1) /\ self.custom_emb_module = NoModule
    /\ self.encoder.nhead = 2 /\ self.encoder.num_encoder_layers = 2
    /\ Shape(arg_x[1]) = <<2, 1, InputSize>>

C3_NoMaskWhenNotCausal ==
    ~self.causal =>
        \A c \in Callers :
            /\ \A n \in 1..Len(enc_call[c]) : enc_call[c][n].src_mask = None
            /\ attn_diag[c] # None =>
                  \A b \in 1..Len(attn_diag[c]) : \A i, j \in 1..Len(attn_diag[c][1]) :
                      attn_diag[c][b][i][j] = 0 <=> Padded(arg_spm[c], b, j)

\* Two calls whose inputs differ only after frame 1 return different frames 1.
C3_Witness ==
    /\ ~self.causal /\ self.custom_emb_module = NoModule
    /\ Returned(1) /\ Returned(2)
    /\ InputsAgree(arg_x[1], arg_spm[1], arg_x[2], arg_spm[2], 1)
    /\ ~SameFrame(result[1], result[2], 1)

\* C4: the encoder's src is the caller's x when there is no custom_emb_module,
\* and otherwise the module's output for x, the module having been invoked first.
C4_EncoderInput ==
    \A c \in Callers : \A n \in 1..Len(enc_call[c]) :
        IF self.custom_emb_module = NoModule
        THEN enc_call[c][n].src = arg_x[c]
        ELSE /\ enc_call[c][n].src = ApplyModule(self.custom_emb_module, arg_x[c])
             /\ steps[c][1] = "custom_emb_module"

C4_Witness ==
    /\ self.custom_emb_module = "lookahead_conv"
    /\ Len(enc_call[1]) = 1
    /\ enc_call[1][1].src # arg_x[1]

\* C5: the returned value is the output activation of the projected encoder
\* output; with ReLU no returned element is negative.
C5_ActivationRange ==
    \A c \in Callers :
        Returned(c) =>
            /\ result[c] = Activate(self.output_activation,
                                    Linear(self.output_layer, encoder_output[c]))
            /\ self.output_activation = "ReLU" => \A e \in Elements(result[c]) : e >= 0

C5_Witness ==
    /\ Returned(1) /\ self.output_activation = "ReLU"
    /\ \E e \in Elements(Linear(self.output_layer, encoder_output[1])) : e < 0

\* C6: no step of forward changes the instance apart from attn_mask, nor the
\* caller's x and src_key_padding_mask of a call in progress.
C6_OnlyMaskChanges ==
    [][/\ Fixed(self') = Fixed(self)
       /\ \A c \in Callers :
            Active(c) => arg_x'[c] = arg_x[c] /\ arg_spm'[c] = arg_spm[c]]_vars

C6_Witness ==
    /\ Returned(1)
    /\ self.attn_mask # snapshot[1].attn_mask
    /\ Fixed(self) = Fixed(snapshot[1])

\* C7 as claimed: after a failed call the instance, stored mask included, is as
\* it was before the call.
C7_AsClaimed ==
    \A c \in Callers : Raised(c) => self = snapshot[c]

\* C7 amended: a collaborator's failure leaves forward at once as the call's
\* exception, no collaborator is invoked twice or after it, nothing is returned,
\* and the instance is as before the call except for attn_mask, which keeps the
\* mask the failed call assigned.
C7_FailurePropagates ==
    \A c \in Callers :
        /\ IsPrefix(steps[c], Pipeline(self))
        /\ Raised(c) =>
              /\ exc[c] = <<steps[c][Len(steps[c])]>>
              /\ result[c] = None
              /\ Fixed(self) = Fixed(snapshot[c])
              /\ self.attn_mask = AttnMask(self.causal, arg_x[c])
        /\ ~Raised(c) => exc[c] = <<>>

C7_Witness ==
    /\ Raised(1) /\ exc[1] = <<"output_layer">>
    /\ self.attn_mask # snapshot[1].attn_mask

\* C8: a returned call invoked (embedding module,) encoder, projection and
\* activation once each in that order, gave the encoder the caller's padding
\* mask and the stored attention mask, kept only the encoder's first return
\* value, and returned the activation's output.
C8_PipelineOrder ==
    \A c \in Callers :
        Returned(c) =>
            /\ steps[c] = Pipeline(self)
            /\ Len(enc_call[c]) = 1
            /\ enc_call[c][1].src_key_padding_mask = arg_spm[c]
            /\ enc_call[c][1].src_mask = self.attn_mask
            /\ enc_call[c][1].src = x[c]
            /\ encoder_output[c] =
                 Encoder(self.encoder, x[c], self.attn_mask, arg_spm[c])[1]
            /\ result[c] = output[c]
            /\ output[c] = Activate(self.output_activation,
                                    Linear(self.output_layer, encoder_output[c]))

C8_Witness ==
    /\ Returned(1) /\ self.custom_emb_module = "causal_conv"
    /\ arg_spm[1] # None /\ self.causal

\* C9 as claimed: in causal mode the mask given to the encoder is square with
\* the time length of the src given in the same call, whatever the module.
C9_MaskFitsSrc ==
    self.causal =>
        \A c \in Callers : \A n \in 1..Len(enc_call[c]) :
            /\ Len(enc_call[c][n].src_mask) = Len(enc_call[c][n].src[1])
            /\ \A i \in 1..Len(enc_call[c][n].src_mask) :
                  Len(enc_call[c][n].src_mask[i]) = Len(enc_call[c][n].src[1])

\* C10 as claimed: under any interleaving a call gives the encoder the mask
\* derived from its own input.
C10_AsClaimed ==
    \A c \in Callers : \A n \in 1..Len(enc_call[c]) :
        enc_call[c][n].src_mask = AttnMask(self.causal, arg_x[c])

\* C10 amended: a call gives the encoder the mask derived from its own input
\* whenever no other call assigned attn_mask between this call's assignment and
\* its call of the encoder, as in every sequence of calls that do not overlap.
C10_OwnMaskUnlessOverwritten ==
    \A c \in Callers : \A n \in 1..Len(enc_call[c]) :
        mask_read_of[c] = c =>
            enc_call[c][n].src_mask = AttnMask(self.causal, arg_x[c])

C10_Witness ==
    /\ self.causal
    /\ Returned(1) /\ Returned(2)
    /\ mask_read_of[1] = 1 /\ mask_read_of[2] = 2
    /\ Len(arg_x[1][1]) # Len(arg_x[2][1])
    /\ arg_spm[1] # arg_spm[2]

==========================================================================
